---- MODULE Spec2Model ----
(***************************************************************************)
(* Model of src/setup.rs (CeresDB server setup): run_server builds the     *)
(* four engine runtimes, selects the analytic engine builder from the      *)
(* configuration and runs run_server_with_runtimes inside block_on on the  *)
(* background runtime.  Every fallible step ends in unwrap_or_else(panic). *)
(* The outcome of each fallible external call (runtime build, engine       *)
(* build, catalog open, load_functions, server build, server start) is an  *)
(* input of the model, chosen by \E in the action that returns from it.    *)
(***************************************************************************)
EXTENDS Naturals, Sequences, FiniteSets

\* Largest thread number a RuntimeConfig field takes in the model.
MaxThreads == 2

\* The fields of EngineRuntimes, in the order the struct literal builds them.
PoolNames == <<"read_runtime", "write_runtime", "meta_runtime", "bg_runtime">>

PoolSet == {PoolNames[i] : i \in 1..Len(PoolNames)}

\* The two implementations of EngineBuilder imported by setup.rs.
Variants == {"ReplicatedEngineBuilder", "RocksEngineBuilder"}

\* The calls of run_server / run_server_with_runtimes that are observed.
Steps == {"build_runtime_read", "build_runtime_write", "build_runtime_meta",
          "build_runtime_bg", "block_on", "MemoryTableEngine",
          "engine_build", "TableEngineProxy",
          "TableBasedManager_new", "CatalogManagerImpl_new",
          "FunctionRegistryImpl_new", "load_functions", "Arc_new_registry",
          "ExecutorImpl_new", "Builder_build", "server_start",
          "wait_for_signal", "server_stop"}

\* The kinds of object run_server constructs.
Kinds == {"EngineRuntimes", "MemoryTableEngine", "AnalyticEngine",
          "TableEngineProxy", "CatalogManager", "FunctionRegistry",
          "QueryExecutor", "Server"}

\* The arguments through which an instance is passed on to a consumer:
\* build(.., runtimes), TableEngineProxy { memory, analytic },
\* TableBasedManager::new(analytic, engine_proxy), and the six of Builder.
Slots == {"build.runtimes", "proxy.memory", "proxy.analytic",
          "catalog.analytic", "catalog.engine_proxy",
          "server.config", "server.runtimes", "server.catalog_manager",
          "server.query_executor", "server.table_engine",
          "server.function_registry"}

\* The panic messages of setup.rs.
MsgRuntime  == "Failed to create runtime"
MsgEngine   == "Failed to setup analytic engine"
MsgCatalog  == "Failed to create catalog manager"
MsgRegistry == "Failed to create function registry"
MsgBuild    == "Failed to create server"

\* Variant of MsgStart with the message of the server build copied.
MsgStartCopied == "Failed to create server"

MsgStart    == "Failed to start server,"

VARIABLES
    pc,                \* position of the main thread in run_server
    config,            \* the Config given to run_server
    runtimes,          \* EngineRuntimes: per field, built and its worker_threads
    T,                 \* type parameter of run_server_with_runtimes::<T>
    builder,           \* per variant: times T::default() / build() ran
    memory,            \* let memory = MemoryTableEngine
    analytic,          \* the engine handle: "None" or the variant that built it
    engine_proxy,      \* "None" or "Proxy" (Arc<TableEngineProxy>)
    catalog_manager,   \* "None" or "Catalog"
    function_registry, \* "None", "New", "Loaded", "Shared"
    query_executor,    \* "None" or "Executor"
    server,            \* "None", "Built", "Started", "Stopped"
    signal,            \* a termination signal has been received
    panic_msg,         \* "" or the message of the panic that ended the run
    hist,              \* per step: calls made, returned ok, returned err
    owners,            \* the holders of a clone of the Arc<EngineRuntimes>
    created,           \* per kind of object: instances constructed so far
    handed,            \* per argument slot of a consumer: the instance passed
    routed             \* the last operation routed by the engine proxy

locals == <<memory, analytic, engine_proxy, catalog_manager,
            function_registry, query_executor, server>>

vars == <<pc, config, runtimes, T, builder, memory, analytic, engine_proxy,
          catalog_manager, function_registry, query_executor, server,
          signal, panic_msg, hist, owners, created, handed, routed>>

ThreadNums == 1..MaxThreads

Configs == [obkv_wal_enable : BOOLEAN,
            read_thread_num : ThreadNums,
            write_thread_num : ThreadNums,
            meta_thread_num : ThreadNums,
            background_thread_num : ThreadNums]

\* No operation has gone through the engine proxy yet.
NoRoute == [tag |-> "None", engine |-> "None", instance |-> 0]

\* State at the entry of run_server(config).
Init ==
    /\ pc = "build_read"
    /\ config \in Configs
    /\ runtimes = [p \in PoolSet |-> [built |-> FALSE, worker_threads |-> 0]]
    /\ T = "None"
    /\ builder = [v \in Variants |-> [default |-> 0, build |-> 0]]
    /\ memory = "None"
    /\ analytic = "None"
    /\ engine_proxy = "None"
    /\ catalog_manager = "None"
    /\ function_registry = "None"
    /\ query_executor = "None"
    /\ server = "None"
    /\ signal = FALSE
    /\ panic_msg = ""
    /\ hist = [s \in Steps |-> [calls |-> 0, ok |-> 0, err |-> 0]]
    /\ owners = {}
    /\ created = [k \in Kinds |-> 0]
    /\ handed = [a \in Slots |-> 0]
    /\ routed = NoRoute

\* ---- bookkeeping of the observed calls ----

Called(h, s) == [h EXCEPT ![s].calls = @ + 1]

ReturnedOk(h, s) == [h EXCEPT ![s].ok = @ + 1]

ReturnedErr(h, s) == [h EXCEPT ![s].err = @ + 1]

\* panic!(msg): the process aborts; no statement after it runs.
Panic(msg) ==
    /\ pc' = "panicked"
    /\ panic_msg' = msg

\* Variant of UnwrapOrElse that drops the error and goes on (as with .ok()).
UnwrapOrContinue(ok, next, msg) ==
    pc' = next /\ panic_msg' = panic_msg

\* result.unwrap_or_else(|e| panic!(msg)): continue at next on Ok, abort on Err.
UnwrapOrElse(ok, next, msg) ==
    IF ok
    THEN pc' = next /\ panic_msg' = panic_msg
    ELSE Panic(msg)

\* ---- build_engine_runtimes: the four fields, in struct-literal order ----

\* Variant of BuildRuntime that goes on without the pool when build() fails.
BuildRuntimeNoPanic(at, field, step, threads_num, next) ==
    /\ pc = at
    /\ \E ok \in BOOLEAN :
        /\ pc' = next
        /\ runtimes' = IF ok
                       THEN [runtimes EXCEPT ![field] =
                                [built |-> TRUE, worker_threads |-> threads_num]]
                       ELSE runtimes
        /\ hist' = IF ok
                   THEN ReturnedOk(Called(hist, step), step)
                   ELSE ReturnedErr(Called(hist, step), step)
    /\ UNCHANGED <<owners, created, handed, routed>>
    /\ UNCHANGED <<config, T, builder, locals, signal, panic_msg>>

\* build_runtime(name, threads_num), stored into field of EngineRuntimes.
BuildRuntime(at, field, step, threads_num, next) ==
    /\ pc = at
    /\ \E ok \in BOOLEAN :
        /\ UnwrapOrElse(ok, next, MsgRuntime)
        /\ runtimes' = IF ok
                       THEN [runtimes EXCEPT ![field] =
                                [built |-> TRUE, worker_threads |-> threads_num]]
                       ELSE runtimes
        /\ hist' = IF ok
                   THEN ReturnedOk(Called(hist, step), step)
                   ELSE ReturnedErr(Called(hist, step), step)
    /\ UNCHANGED <<owners, created, handed, routed>>
    /\ UNCHANGED <<config, T, builder, locals, signal>>

BuildReadRuntime ==
    BuildRuntime("build_read", "read_runtime", "build_runtime_read",
                 config.read_thread_num, "build_write")

\* Variant of BuildWriteRuntime sized from read_thread_num.
BuildWriteRuntimeFromRead ==
    BuildRuntime("build_write", "write_runtime", "build_runtime_write",
                 config.read_thread_num, "build_meta")

BuildWriteRuntime ==
    BuildRuntime("build_write", "write_runtime", "build_runtime_write",
                 config.write_thread_num, "build_meta")

BuildMetaRuntime ==
    BuildRuntime("build_meta", "meta_runtime", "build_runtime_meta",
                 config.meta_thread_num, "build_bg")

BuildBgRuntime ==
    BuildRuntime("build_bg", "bg_runtime", "build_runtime_bg",
                 config.background_thread_num, "runtimes_arc")

\* ---- run_server: the shared pool set ----

\* Variant of MakeRuntimesArc that moves the only Arc into the task.
MakeRuntimesArcMoved ==
    /\ pc = "runtimes_arc"
    /\ pc' = "block_on"
    /\ created' = [created EXCEPT !["EngineRuntimes"] = @ + 1]
    /\ owners' = {"task"}
    /\ UNCHANGED <<config, runtimes, T, builder, locals, signal, panic_msg,
                   hist, handed, routed>>

\* let runtimes = Arc::new(build_engine_runtimes(..));
\* let engine_runtimes = runtimes.clone();
MakeRuntimesArc ==
    /\ pc = "runtimes_arc"
    /\ pc' = "block_on"
    /\ created' = [created EXCEPT !["EngineRuntimes"] = @ + 1]
    /\ owners' = {"run_server", "task"}
    /\ UNCHANGED <<config, runtimes, T, builder, locals, signal, panic_msg,
                   hist, handed, routed>>

\* ---- run_server: block_on and the choice of the engine builder ----

\* Variant of SelectBuilder with the two branches exchanged.
SelectBuilderSwapped(cfg) ==
    IF cfg.obkv_wal_enable
    THEN "RocksEngineBuilder"
    ELSE "ReplicatedEngineBuilder"

\* if config.analytic.obkv_wal.enable { Replicated } else { Rocks }
SelectBuilder(cfg) ==
    IF cfg.obkv_wal_enable
    THEN "ReplicatedEngineBuilder"
    ELSE "RocksEngineBuilder"

\* runtimes.bg_runtime.block_on(async { ... }): the task starts and calls
\* run_server_with_runtimes::<T>, whose first statements are
\* let memory = MemoryTableEngine and T::default().
BlockOn ==
    /\ pc = "block_on"
    /\ pc' = "engine_build"
    /\ T' = SelectBuilder(config)
    /\ memory' = "Memory"
    /\ builder' = [builder EXCEPT ![T'].default = @ + 1]
    /\ hist' = ReturnedOk(Called(Called(hist, "block_on"), "MemoryTableEngine"),
                          "MemoryTableEngine")
    /\ created' = [created EXCEPT !["MemoryTableEngine"] = @ + 1]
    /\ UNCHANGED <<owners, handed, routed>>
    /\ UNCHANGED <<config, runtimes, analytic, engine_proxy, catalog_manager,
                   function_registry, query_executor, server, signal, panic_msg>>

\* ---- run_server_with_runtimes ----

\* analytic_engine_builder.build(analytic_config, runtimes.clone()): the call.
EngineBuildCall ==
    /\ pc = "engine_build"
    /\ pc' = "engine_await"
    /\ builder' = [builder EXCEPT ![T].build = @ + 1]
    /\ hist' = Called(hist, "engine_build")
    /\ owners' = owners \cup {"engine"}
    /\ handed' = [handed EXCEPT !["build.runtimes"] = created["EngineRuntimes"]]
    /\ UNCHANGED <<created, routed>>
    /\ UNCHANGED <<config, runtimes, T, locals, signal, panic_msg>>

\* Variant of EngineBuildReturn that goes on to the proxy whatever build returned.
EngineBuildReturnNoCheck ==
    /\ pc = "engine_await"
    /\ \E ok \in BOOLEAN :
        /\ pc' = "engine_proxy"
        /\ analytic' = IF ok THEN T ELSE analytic
        /\ created' = IF ok
                      THEN [created EXCEPT !["AnalyticEngine"] = @ + 1]
                      ELSE created
        /\ \E keeps \in BOOLEAN :
              owners' = IF ok /\ keeps THEN owners ELSE owners \ {"engine"}
        /\ hist' = IF ok
                   THEN ReturnedOk(hist, "engine_build")
                   ELSE ReturnedErr(hist, "engine_build")
    /\ UNCHANGED <<handed, routed>>
    /\ UNCHANGED <<config, runtimes, T, builder, memory, engine_proxy,
                   catalog_manager, function_registry, query_executor, server,
                   signal, panic_msg>>

\* .await.unwrap_or_else(|e| panic!("Failed to setup analytic engine ..."))
EngineBuildReturn ==
    /\ pc = "engine_await"
    /\ \E ok \in BOOLEAN :
        /\ UnwrapOrElse(ok, "engine_proxy", MsgEngine)
        /\ analytic' = IF ok THEN T ELSE analytic
        /\ created' = IF ok
                      THEN [created EXCEPT !["AnalyticEngine"] = @ + 1]
                      ELSE created
        /\ \E keeps \in BOOLEAN :
              owners' = IF ok /\ keeps THEN owners ELSE owners \ {"engine"}
        /\ hist' = IF ok
                   THEN ReturnedOk(hist, "engine_build")
                   ELSE ReturnedErr(hist, "engine_build")
    /\ UNCHANGED <<handed, routed>>
    /\ UNCHANGED <<config, runtimes, T, builder, memory, engine_proxy,
                   catalog_manager, function_registry, query_executor, server,
                   signal>>

\* let engine_proxy = Arc::new(TableEngineProxy { memory, analytic.clone() })
MakeEngineProxy ==
    /\ pc = "engine_proxy"
    /\ pc' = "catalog_new"
    /\ engine_proxy' = "Proxy"
    /\ hist' = ReturnedOk(Called(hist, "TableEngineProxy"), "TableEngineProxy")
    /\ created' = [created EXCEPT !["TableEngineProxy"] = @ + 1]
    /\ handed' = [handed EXCEPT !["proxy.memory"] = created["MemoryTableEngine"],
                                !["proxy.analytic"] = created["AnalyticEngine"]]
    /\ UNCHANGED <<owners, routed>>
    /\ UNCHANGED <<config, runtimes, T, builder, memory, analytic,
                   catalog_manager, function_registry, query_executor, server,
                   signal, panic_msg>>

\* TableBasedManager::new(analytic, engine_proxy.clone()): the call.
CatalogNewCall ==
    /\ pc = "catalog_new"
    /\ pc' = "catalog_await"
    /\ hist' = Called(hist, "TableBasedManager_new")
    /\ handed' = [handed EXCEPT
                    !["catalog.analytic"] = created["AnalyticEngine"],
                    !["catalog.engine_proxy"] = created["TableEngineProxy"]]
    /\ UNCHANGED <<owners, created, routed>>
    /\ UNCHANGED <<config, runtimes, T, builder, locals, signal, panic_msg>>

\* Variant of CatalogNewReturn that calls TableBasedManager::new again on Err.
CatalogNewReturnRetry ==
    /\ pc = "catalog_await"
    /\ \E ok \in BOOLEAN :
        /\ pc' = IF ok THEN "registry_new" ELSE "catalog_new"
        /\ catalog_manager' = IF ok THEN "Catalog" ELSE catalog_manager
        /\ created' = IF ok
                      THEN [created EXCEPT !["CatalogManager"] = @ + 1]
                      ELSE created
        /\ hist' = IF ok
                   THEN ReturnedOk(Called(ReturnedOk(hist, "TableBasedManager_new"),
                                          "CatalogManagerImpl_new"),
                                   "CatalogManagerImpl_new")
                   ELSE ReturnedErr(hist, "TableBasedManager_new")
    /\ hist["TableBasedManager_new"].calls < 3
    /\ UNCHANGED <<owners, handed, routed>>
    /\ UNCHANGED <<config, runtimes, T, builder, memory, analytic, engine_proxy,
                   function_registry, query_executor, server, signal, panic_msg>>

\* .await.unwrap_or_else(panic!("Failed to create catalog manager ...")),
\* then CatalogManagerImpl::new(..) on the Ok value.
CatalogNewReturn ==
    /\ pc = "catalog_await"
    /\ \E ok \in BOOLEAN :
        /\ UnwrapOrElse(ok, "registry_new", MsgCatalog)
        /\ catalog_manager' = IF ok THEN "Catalog" ELSE catalog_manager
        /\ created' = IF ok
                      THEN [created EXCEPT !["CatalogManager"] = @ + 1]
                      ELSE created
        /\ hist' = IF ok
                   THEN ReturnedOk(Called(ReturnedOk(hist, "TableBasedManager_new"),
                                          "CatalogManagerImpl_new"),
                                   "CatalogManagerImpl_new")
                   ELSE ReturnedErr(hist, "TableBasedManager_new")
    /\ UNCHANGED <<owners, handed, routed>>
    /\ UNCHANGED <<config, runtimes, T, builder, memory, analytic, engine_proxy,
                   function_registry, query_executor, server, signal>>

\* Variant of RegistryNew that wraps the registry in the Arc before loading.
RegistryNewShared ==
    /\ pc = "registry_new"
    /\ pc' = "load_functions"
    /\ function_registry' = "Shared"
    /\ hist' = ReturnedOk(Called(ReturnedOk(Called(hist,
                    "FunctionRegistryImpl_new"), "FunctionRegistryImpl_new"),
                    "Arc_new_registry"), "Arc_new_registry")
    /\ created' = [created EXCEPT !["FunctionRegistry"] = @ + 1]
    /\ UNCHANGED <<config, runtimes, T, builder, memory, analytic, engine_proxy,
                   catalog_manager, query_executor, server, signal, panic_msg,
                   owners, handed, routed>>

\* Variant of RegistryNew after which load_functions() is not called.
RegistryNewNoLoad ==
    /\ pc = "registry_new"
    /\ pc' = "registry_arc"
    /\ function_registry' = "New"
    /\ hist' = ReturnedOk(Called(hist, "FunctionRegistryImpl_new"),
                          "FunctionRegistryImpl_new")
    /\ created' = [created EXCEPT !["FunctionRegistry"] = @ + 1]
    /\ UNCHANGED <<owners, handed, routed>>
    /\ UNCHANGED <<config, runtimes, T, builder, memory, analytic, engine_proxy,
                   catalog_manager, query_executor, server, signal, panic_msg>>

\* let mut function_registry = FunctionRegistryImpl::new()
RegistryNew ==
    /\ pc = "registry_new"
    /\ pc' = "load_functions"
    /\ function_registry' = "New"
    /\ hist' = ReturnedOk(Called(hist, "FunctionRegistryImpl_new"),
                          "FunctionRegistryImpl_new")
    /\ created' = [created EXCEPT !["FunctionRegistry"] = @ + 1]
    /\ UNCHANGED <<owners, handed, routed>>
    /\ UNCHANGED <<config, runtimes, T, builder, memory, analytic, engine_proxy,
                   catalog_manager, query_executor, server, signal, panic_msg>>

\* Variant of LoadFunctions that discards the result of load_functions().
LoadFunctionsIgnored ==
    /\ pc = "load_functions"
    /\ \E ok \in BOOLEAN :
        /\ pc' = "registry_arc"
        /\ \E left \in {"New", "Partial"} :
              function_registry' = IF ok THEN "Loaded" ELSE left
        /\ hist' = IF ok
                   THEN ReturnedOk(Called(hist, "load_functions"), "load_functions")
                   ELSE ReturnedErr(Called(hist, "load_functions"), "load_functions")
    /\ UNCHANGED <<owners, created, handed, routed>>
    /\ UNCHANGED <<config, runtimes, T, builder, memory, analytic, engine_proxy,
                   catalog_manager, query_executor, server, signal, panic_msg>>

\* function_registry.load_functions().unwrap_or_else(panic!(..))
LoadFunctions ==
    /\ pc = "load_functions"
    /\ \E ok \in BOOLEAN :
        /\ UnwrapOrElse(ok, "registry_arc", MsgRegistry)
        /\ \E left \in {"New", "Partial"} :
              function_registry' = IF ok THEN "Loaded" ELSE left
        /\ hist' = IF ok
                   THEN ReturnedOk(Called(hist, "load_functions"), "load_functions")
                   ELSE ReturnedErr(Called(hist, "load_functions"), "load_functions")
    /\ UNCHANGED <<owners, created, handed, routed>>
    /\ UNCHANGED <<config, runtimes, T, builder, memory, analytic, engine_proxy,
                   catalog_manager, query_executor, server, signal>>

\* let function_registry = Arc::new(function_registry)
RegistryArc ==
    /\ pc = "registry_arc"
    /\ pc' = "executor_new"
    /\ function_registry' = "Shared"
    /\ hist' = ReturnedOk(Called(hist, "Arc_new_registry"), "Arc_new_registry")
    /\ UNCHANGED <<owners, created, handed, routed>>
    /\ UNCHANGED <<config, runtimes, T, builder, memory, analytic, engine_proxy,
                   catalog_manager, query_executor, server, signal, panic_msg>>

\* let query_executor = ExecutorImpl::new()
ExecutorNew ==
    /\ pc = "executor_new"
    /\ pc' = "server_build"
    /\ query_executor' = "Executor"
    /\ hist' = ReturnedOk(Called(hist, "ExecutorImpl_new"), "ExecutorImpl_new")
    /\ created' = [created EXCEPT !["QueryExecutor"] = @ + 1]
    /\ UNCHANGED <<owners, handed, routed>>
    /\ UNCHANGED <<config, runtimes, T, builder, memory, analytic, engine_proxy,
                   catalog_manager, function_registry, server, signal, panic_msg>>

\* Variant of SupplyServer without the .function_registry(..) call.
SupplyServerNoRegistry(h) ==
    [h EXCEPT !["server.config"] = 1,
              !["server.runtimes"] = created["EngineRuntimes"],
              !["server.catalog_manager"] = created["CatalogManager"],
              !["server.query_executor"] = created["QueryExecutor"],
              !["server.table_engine"] = created["TableEngineProxy"]]

\* Builder::new(config).runtimes(runtimes.clone()).catalog_manager(..)
\* .query_executor(..).table_engine(engine_proxy).function_registry(..):
\* each argument slot of the builder receives the instance the local holds.
SupplyServer(h) ==
    [h EXCEPT !["server.config"] = 1,
              !["server.runtimes"] = created["EngineRuntimes"],
              !["server.catalog_manager"] = created["CatalogManager"],
              !["server.query_executor"] = created["QueryExecutor"],
              !["server.table_engine"] = created["TableEngineProxy"],
              !["server.function_registry"] = created["FunctionRegistry"]]

\* Variant of ServerBuild that gives the builder a pool set of its own
\* (.runtimes(Arc::new(build_engine_runtimes(&config.runtime)))).
ServerBuildFreshRuntimes ==
    /\ pc = "server_build"
    /\ \E ok \in BOOLEAN :
        /\ UnwrapOrElse(ok, "server_start", MsgBuild)
        /\ server' = IF ok THEN "Built" ELSE server
        /\ created' = [created EXCEPT
                          !["EngineRuntimes"] = @ + 1,
                          !["Server"] = IF ok THEN @ + 1 ELSE @]
        /\ owners' = owners
        /\ handed' = [SupplyServer(handed) EXCEPT
                          !["server.runtimes"] = created["EngineRuntimes"] + 1]
        /\ hist' = IF ok
                   THEN ReturnedOk(Called(hist, "Builder_build"), "Builder_build")
                   ELSE ReturnedErr(Called(hist, "Builder_build"), "Builder_build")
    /\ UNCHANGED <<routed>>
    /\ UNCHANGED <<config, runtimes, T, builder, memory, analytic, engine_proxy,
                   catalog_manager, function_registry, query_executor, signal>>

\* Builder::new(config).runtimes(..)...build().unwrap_or_else(panic!(..))
ServerBuild ==
    /\ pc = "server_build"
    /\ \E ok \in BOOLEAN :
        /\ UnwrapOrElse(ok, "server_start", MsgBuild)
        /\ server' = IF ok THEN "Built" ELSE server
        /\ created' = IF ok THEN [created EXCEPT !["Server"] = @ + 1] ELSE created
        /\ owners' = IF ok THEN owners \cup {"server"} ELSE owners
        /\ handed' = SupplyServer(handed)
        /\ hist' = IF ok
                   THEN ReturnedOk(Called(hist, "Builder_build"), "Builder_build")
                   ELSE ReturnedErr(Called(hist, "Builder_build"), "Builder_build")
    /\ UNCHANGED <<routed>>
    /\ UNCHANGED <<config, runtimes, T, builder, memory, analytic, engine_proxy,
                   catalog_manager, function_registry, query_executor, signal>>

\* server.start(): the call.
ServerStartCall ==
    /\ pc = "server_start"
    /\ pc' = "start_await"
    /\ hist' = Called(hist, "server_start")
    /\ UNCHANGED <<owners, created, handed, routed>>
    /\ UNCHANGED <<config, runtimes, T, builder, locals, signal, panic_msg>>

\* Variant of ServerStartReturn after which wait_for_signal() is not called.
ServerStartReturnNoWait ==
    /\ pc = "start_await"
    /\ \E ok \in BOOLEAN :
        /\ UnwrapOrElse(ok, "server_stop", MsgStart)
        /\ server' = IF ok THEN "Started" ELSE server
        /\ hist' = IF ok
                   THEN ReturnedOk(hist, "server_start")
                   ELSE ReturnedErr(hist, "server_start")
    /\ UNCHANGED <<owners, created, handed, routed>>
    /\ UNCHANGED <<config, runtimes, T, builder, memory, analytic, engine_proxy,
                   catalog_manager, function_registry, query_executor, signal>>

\* Variant of ServerStartReturn that goes on to the signal wait on Err.
ServerStartReturnNoCheck ==
    /\ pc = "start_await"
    /\ \E ok \in BOOLEAN :
        /\ pc' = "wait_signal"
        /\ server' = IF ok THEN "Started" ELSE server
        /\ hist' = IF ok
                   THEN ReturnedOk(hist, "server_start")
                   ELSE ReturnedErr(hist, "server_start")
    /\ UNCHANGED <<owners, created, handed, routed>>
    /\ UNCHANGED <<config, runtimes, T, builder, memory, analytic, engine_proxy,
                   catalog_manager, function_registry, query_executor, signal,
                   panic_msg>>

\* .await.unwrap_or_else(panic!("Failed to start server, ..."))
ServerStartReturn ==
    /\ pc = "start_await"
    /\ \E ok \in BOOLEAN :
        /\ UnwrapOrElse(ok, "wait_signal", MsgStart)
        /\ server' = IF ok THEN "Started" ELSE server
        /\ hist' = IF ok
                   THEN ReturnedOk(hist, "server_start")
                   ELSE ReturnedErr(hist, "server_start")
    /\ UNCHANGED <<owners, created, handed, routed>>
    /\ UNCHANGED <<config, runtimes, T, builder, memory, analytic, engine_proxy,
                   catalog_manager, function_registry, query_executor, signal>>

\* Variant of WaitForSignalCall that does not block: stop() follows at once.
WaitForSignalCallNoBlock ==
    /\ pc = "wait_signal"
    /\ pc' = "server_stop"
    /\ hist' = ReturnedOk(Called(hist, "wait_for_signal"), "wait_for_signal")
    /\ UNCHANGED <<config, runtimes, T, builder, locals, signal, panic_msg>>
    /\ UNCHANGED <<owners, created, handed, routed>>

\* signal_handler::wait_for_signal(): the call; the thread blocks.
WaitForSignalCall ==
    /\ pc = "wait_signal"
    /\ pc' = "blocked_on_signal"
    /\ hist' = Called(hist, "wait_for_signal")
    /\ UNCHANGED <<owners, created, handed, routed>>
    /\ UNCHANGED <<config, runtimes, T, builder, locals, signal, panic_msg>>

\* The operating system delivers a termination signal to the waiting process.
DeliverSignal ==
    /\ pc = "blocked_on_signal"
    /\ ~signal
    /\ signal' = TRUE
    /\ UNCHANGED <<owners, created, handed, routed>>
    /\ UNCHANGED <<pc, config, runtimes, T, builder, locals, panic_msg, hist>>

\* Variant of WaitForSignalReturn that returns without a signal.
WaitForSignalReturnSpurious ==
    /\ pc = "blocked_on_signal"
    /\ pc' = "server_stop"
    /\ hist' = ReturnedOk(hist, "wait_for_signal")
    /\ UNCHANGED <<owners, created, handed, routed>>
    /\ UNCHANGED <<config, runtimes, T, builder, locals, signal, panic_msg>>

\* wait_for_signal returns once a signal has been received.
WaitForSignalReturn ==
    /\ pc = "blocked_on_signal"
    /\ signal
    /\ pc' = "server_stop"
    /\ hist' = ReturnedOk(hist, "wait_for_signal")
    /\ UNCHANGED <<owners, created, handed, routed>>
    /\ UNCHANGED <<config, runtimes, T, builder, locals, signal, panic_msg>>

\* server.stop()
ServerStop ==
    /\ pc = "server_stop"
    /\ pc' = "task_done"
    /\ server' = "Stopped"
    /\ hist' = ReturnedOk(Called(hist, "server_stop"), "server_stop")
    /\ UNCHANGED <<owners, created, handed, routed>>
    /\ UNCHANGED <<config, runtimes, T, builder, memory, analytic, engine_proxy,
                   catalog_manager, function_registry, query_executor, signal,
                   panic_msg>>

\* Variant of BlockOnReturn where the task ends once the server has started.
BlockOnReturnAfterStart ==
    /\ pc = "wait_signal"
    /\ pc' = "returned"
    /\ hist' = ReturnedOk(hist, "block_on")
    /\ owners' = {}
    /\ UNCHANGED <<created, handed, routed>>
    /\ UNCHANGED <<config, runtimes, T, builder, locals, signal, panic_msg>>

\* ---- TableEngineProxy: routing of a per-table operation ----

\* The engine-type tags a table operation may carry.
Tags == {"memory", "analytic", "other"}

\* Variant of Route that falls back to the memory engine for an unknown tag.
RouteWithDefault(tag) ==
    IF tag = "analytic"
    THEN [tag |-> tag, engine |-> "AnalyticEngine",
          instance |-> handed["proxy.analytic"]]
    ELSE [tag |-> tag, engine |-> "MemoryTableEngine",
          instance |-> handed["proxy.memory"]]

\* The engine an operation with the given tag is routed to: the proxy's
\* memory field, its analytic field, or the error "unsupported engine type".
Route(tag) ==
    CASE tag = "memory" -> [tag |-> tag, engine |-> "MemoryTableEngine",
                            instance |-> handed["proxy.memory"]]
      [] tag = "analytic" -> [tag |-> tag, engine |-> "AnalyticEngine",
                              instance |-> handed["proxy.analytic"]]
      [] OTHER -> [tag |-> tag, engine |-> "UnsupportedEngineType",
                   instance |-> 0]

\* A holder of the proxy (the catalog manager, the server) runs a per-table
\* operation with some tag.
ProxyRoute ==
    /\ handed["catalog.engine_proxy"] # 0 \/ handed["server.table_engine"] # 0
    /\ pc \notin {"panicked", "returned"}
    /\ \E tag \in Tags : routed' = Route(tag)
    /\ UNCHANGED <<pc, config, runtimes, T, builder, locals, signal, panic_msg,
                   hist, owners, created, handed>>

\* The async block has completed: block_on returns and run_server returns.
BlockOnReturn ==
    /\ pc = "task_done"
    /\ pc' = "returned"
    /\ hist' = ReturnedOk(hist, "block_on")
    /\ owners' = {}
    /\ UNCHANGED <<created, handed, routed>>
    /\ UNCHANGED <<config, runtimes, T, builder, locals, signal, panic_msg>>

Next ==
    \/ BuildReadRuntime
    \/ BuildWriteRuntime
    \/ BuildMetaRuntime
    \/ BuildBgRuntime
    \/ MakeRuntimesArc
    \/ BlockOn
    \/ EngineBuildCall
    \/ EngineBuildReturn
    \/ MakeEngineProxy
    \/ CatalogNewCall
    \/ CatalogNewReturn
    \/ RegistryNew
    \/ LoadFunctions
    \/ RegistryArc
    \/ ExecutorNew
    \/ ServerBuild
    \/ ServerStartCall
    \/ ServerStartReturn
    \/ WaitForSignalCall
    \/ DeliverSignal
    \/ WaitForSignalReturn
    \/ ServerStop
    \/ BlockOnReturn
    \/ ProxyRoute

Spec == Init /\ [][Next]_vars

\* The thread of run_server keeps running once wait_for_signal can return:
\* the return from the wait, server.stop() and the return of block_on are
\* taken when they stay enabled.
FairSpec ==
    /\ Spec
    /\ WF_vars(WaitForSignalReturn)
    /\ WF_vars(ServerStop)
    /\ WF_vars(BlockOnReturn)

\* ---- properties ----

Calls(s) == hist[s].calls

Oks(s) == hist[s].ok

Errs(s) == hist[s].err

\* The steps of run_server_with_runtimes that follow the engine build.
AfterEngine == {"TableEngineProxy", "TableBasedManager_new",
                "CatalogManagerImpl_new", "FunctionRegistryImpl_new",
                "load_functions", "Arc_new_registry", "ExecutorImpl_new",
                "Builder_build", "server_start", "wait_for_signal",
                "server_stop"}

\* C1: the catalog manager build (TableBasedManager::new) is attempted only
\* after the storage engine build has returned success: in no reachable state
\* has a catalog build started while the engine build has not succeeded,
\* whatever steps fail.
C1_CatalogAfterEngine ==
    (Calls("TableBasedManager_new") > 0 \/ pc \in {"catalog_new", "catalog_await"})
        => /\ Oks("engine_build") > 0
           /\ Errs("engine_build") = 0
           /\ analytic \in Variants

C1_Witness ==
    /\ pc = "catalog_await"
    /\ Calls("TableBasedManager_new") = 1
    /\ Oks("engine_build") = 1

\* C2: stop() is never called before start() has returned success, never
\* before the signal wait has returned (which needs a received signal), never
\* a second time; and a run that returns has called stop() exactly once.
C2_StopOnceAfterSignal ==
    /\ Calls("server_stop") <= 1
    /\ (Calls("server_stop") > 0 \/ pc = "server_stop")
          => /\ Oks("server_start") = 1
             /\ Oks("wait_for_signal") = 1
             /\ signal
    /\ pc \in {"task_done", "returned"} => Calls("server_stop") = 1
    /\ server = "Stopped" <=> Calls("server_stop") = 1

C2_Witness ==
    /\ pc = "returned"
    /\ Calls("server_stop") = 1
    /\ signal

\* C3: only the builder variant selected by config.analytic.obkv_wal.enable
\* (replicated iff the flag is true, Rocks otherwise) is ever instantiated or
\* invoked, each at most once; the other variant is never built, also not
\* after a failed build; once the bootstrap task runs exactly one variant has
\* been instantiated and T never changes.
C3_OneBuilderVariant ==
    LET chosen == IF config.obkv_wal_enable
                  THEN "ReplicatedEngineBuilder"
                  ELSE "RocksEngineBuilder"
        other  == IF config.obkv_wal_enable
                  THEN "RocksEngineBuilder"
                  ELSE "ReplicatedEngineBuilder"
    IN  /\ builder[other].default = 0
        /\ builder[other].build = 0
        /\ builder[chosen].default <= 1
        /\ builder[chosen].build <= 1
        /\ builder[chosen].build <= builder[chosen].default
        /\ Calls("block_on") > 0 => (builder[chosen].default = 1 /\ T = chosen)
        /\ Calls("engine_build") > 0 => builder[chosen].build = 1
        /\ analytic \in {"None", chosen}

C3_Witness ==
    /\ Errs("engine_build") = 1
    /\ config.obkv_wal_enable
    /\ builder["ReplicatedEngineBuilder"].build = 1
    /\ pc = "panicked"

\* C4: if the storage engine build fails, the process aborts at the
\* engine-build stage and no later step ever happens: no engine proxy, catalog
\* manager, function registry, query executor or server is constructed, and
\* start() and stop() are never called.
C4_EngineFailureAborts ==
    Errs("engine_build") > 0
        => /\ pc = "panicked"
           /\ panic_msg = MsgEngine
           /\ \A s \in AfterEngine : Calls(s) = 0
           /\ analytic = "None"
           /\ engine_proxy = "None"
           /\ catalog_manager = "None"
           /\ function_registry = "None"
           /\ query_executor = "None"
           /\ server = "None"

C4_Witness ==
    /\ Errs("engine_build") = 1
    /\ pc = "panicked"
    /\ ~config.obkv_wal_enable

\* C5: if load_functions() fails after the engine build and the catalog build
\* succeeded, bootstrap aborts at the registry-load stage: the server builder
\* is never invoked, no Server exists, start() and stop() are never called.
C5_RegistryFailureAborts ==
    Errs("load_functions") > 0
        => /\ pc = "panicked"
           /\ panic_msg = MsgRegistry
           /\ Oks("engine_build") = 1
           /\ Oks("TableBasedManager_new") = 1
           /\ Calls("Arc_new_registry") = 0
           /\ Calls("Builder_build") = 0
           /\ server = "None"
           /\ Calls("server_start") = 0
           /\ Calls("server_stop") = 0

C5_Witness ==
    /\ Errs("load_functions") = 1
    /\ Oks("engine_build") = 1
    /\ Oks("TableBasedManager_new") = 1
    /\ catalog_manager = "Catalog"

\* The bootstrap steps of run_server_with_runtimes in the order of the code.
BootOrder == <<"engine_build", "TableEngineProxy", "TableBasedManager_new",
               "CatalogManagerImpl_new", "FunctionRegistryImpl_new",
               "load_functions", "Arc_new_registry", "ExecutorImpl_new",
               "Builder_build", "server_start", "wait_for_signal",
               "server_stop">>

\* C6: the bootstrap steps run strictly in the order engine build, engine
\* proxy, catalog manager, function registry (new, load), query executor,
\* server build, start, signal wait, stop: a step has begun only if every
\* earlier step has completed with success; the registry is loaded before the
\* executor is created, and catalog and proxy exist when the server is built.
C6_StrictOrder ==
    /\ \A j \in 1..Len(BootOrder) : \A i \in 1..(j - 1) :
          Calls(BootOrder[j]) > 0
              => /\ Oks(BootOrder[i]) = 1
                 /\ Calls(BootOrder[i]) = 1
                 /\ Errs(BootOrder[i]) = 0
    /\ Calls("ExecutorImpl_new") > 0 => function_registry = "Shared"
    /\ (Calls("Builder_build") > 0 \/ pc = "server_build")
          => /\ analytic \in Variants
             /\ engine_proxy = "Proxy"
             /\ catalog_manager = "Catalog"
             /\ function_registry = "Shared"
             /\ query_executor = "Executor"

C6_Witness ==
    /\ pc = "task_done"
    /\ \A i \in 1..Len(BootOrder) : Oks(BootOrder[i]) = 1

\* The process-level state of the state machine, read off the position.
ProcState ==
    CASE pc \in {"build_read", "build_write", "build_meta", "build_bg",
                 "runtimes_arc", "block_on"} -> "Unstarted"
      [] pc \in {"engine_build", "engine_await"} -> "Building(engine)"
      [] pc \in {"engine_proxy", "catalog_new", "catalog_await"}
            -> "Building(catalog)"
      [] pc \in {"registry_new", "load_functions", "registry_arc",
                 "executor_new", "server_build", "server_start",
                 "start_await"} -> "Building(server)"
      [] pc \in {"wait_signal", "blocked_on_signal"} -> "Running"
      [] pc = "server_stop" -> "Stopping"
      [] pc \in {"task_done", "returned"} -> "Stopped"
      [] pc = "panicked" -> "Aborted"

\* The transitions of the process-level state machine.
ProcSteps == {<<"Unstarted", "Building(engine)">>,
              <<"Building(engine)", "Building(catalog)">>,
              <<"Building(catalog)", "Building(server)">>,
              <<"Building(server)", "Running">>,
              <<"Running", "Stopping">>,
              <<"Stopping", "Stopped">>,
              <<"Unstarted", "Aborted">>,
              <<"Building(engine)", "Aborted">>,
              <<"Building(catalog)", "Aborted">>,
              <<"Building(server)", "Aborted">>}

\* The fallible build steps.
BuildSteps == {"build_runtime_read", "build_runtime_write",
               "build_runtime_meta", "build_runtime_bg", "engine_build",
               "TableBasedManager_new", "load_functions", "Builder_build",
               "server_start"}

\* C7: the process-level state only moves along Unstarted, Building(engine),
\* Building(catalog), Building(server), Running, Stopping, Stopped; a failed
\* build step moves directly to Aborted; no step leaves Aborted or Stopped;
\* and every step is attempted at most once in a run (no retry).
C7_NoRetry ==
    [][ /\ ProcState' # ProcState => <<ProcState, ProcState'>> \in ProcSteps
        /\ (\E s \in Steps : Errs(s)' > Errs(s)) => ProcState' = "Aborted"
        /\ ProcState' = "Aborted" => (\E s \in BuildSteps : Errs(s)' = 1)
        /\ ProcState \in {"Aborted", "Stopped"} => ProcState' = ProcState
        /\ pc = "panicked" => UNCHANGED vars
        /\ \A s \in Steps : Calls(s)' <= 1
        /\ \A v \in Variants : builder'[v].build <= 1 ]_vars

C7_Witness ==
    /\ ProcState = "Aborted"
    /\ Errs("TableBasedManager_new") = 1
    /\ Calls("TableBasedManager_new") = 1

\* C8 as stated: block_on of the bootstrap task returns first, and only
\* then does the controller wait for the signal and call stop().
C8_WaitAfterBlockOnReturns ==
    (Calls("wait_for_signal") > 0 \/ Calls("server_stop") > 0)
        => Oks("block_on") > 0

\* C8 (amended): the wait for the signal begins only after server.start()
\* has returned success, and it is part of the task run by block_on: while
\* the thread waits, and when stop() is called, block_on has not returned;
\* block_on returns only after wait_for_signal has returned and stop() has
\* been called.
C8_WaitInsideTask ==
    /\ Calls("wait_for_signal") > 0
          => (Oks("server_start") = 1 /\ Calls("block_on") = 1)
    /\ (pc \in {"wait_signal", "blocked_on_signal", "server_stop"})
          => Oks("block_on") = 0
    /\ Oks("block_on") > 0
          => /\ Oks("wait_for_signal") = 1
             /\ Oks("server_stop") = 1
             /\ pc = "returned"

C8_Witness ==
    /\ Oks("block_on") = 1
    /\ Oks("wait_for_signal") = 1
    /\ Oks("server_stop") = 1

\* The build_runtime calls in the order of the EngineRuntimes literal.
PoolSteps == <<"build_runtime_read", "build_runtime_write",
               "build_runtime_meta", "build_runtime_bg">>

\* C9: all four runtime pools are built before the engine variant is
\* selected or any bootstrap step runs; if building a pool fails, the process
\* aborts there: no later pool, no engine builder, and no catalog, registry
\* or server is ever built.
C9_PoolsFirst ==
    /\ (Calls("block_on") > 0 \/ T # "None" \/ memory # "None"
          \/ (\E v \in Variants : builder[v].default > 0 \/ builder[v].build > 0)
          \/ (\E i \in 1..Len(BootOrder) : Calls(BootOrder[i]) > 0))
          => \A i \in 1..Len(PoolSteps) :
                /\ Oks(PoolSteps[i]) = 1
                /\ Errs(PoolSteps[i]) = 0
                /\ runtimes[PoolNames[i]].built
    /\ \A i \in 1..Len(PoolSteps) :
          Errs(PoolSteps[i]) > 0
              => /\ pc = "panicked"
                 /\ panic_msg = MsgRuntime
                 /\ \A j \in i..Len(PoolSteps) : ~runtimes[PoolNames[j]].built
                 /\ \A j \in (i + 1)..Len(PoolSteps) : Calls(PoolSteps[j]) = 0
                 /\ \A j \in 1..(i - 1) : Oks(PoolSteps[j]) = 1
                 /\ Calls("block_on") = 0
                 /\ T = "None"
                 /\ \A v \in Variants : builder[v] = [default |-> 0, build |-> 0]
                 /\ \A k \in 1..Len(BootOrder) : Calls(BootOrder[k]) = 0

C9_Witness ==
    /\ Errs("build_runtime_meta") = 1
    /\ runtimes["read_runtime"].built
    /\ runtimes["write_runtime"].built
    /\ pc = "panicked"

\* C10: if server.start() fails the process aborts: Running is never
\* reached, the signal wait is never entered and stop() is never called;
\* and if the server build fails, start() is never called.
C10_StartFailureAborts ==
    /\ Errs("server_start") > 0
          => /\ pc = "panicked"
             /\ panic_msg = MsgStart
             /\ server = "Built"
             /\ Calls("wait_for_signal") = 0
             /\ Calls("server_stop") = 0
    /\ Errs("Builder_build") > 0
          => /\ pc = "panicked"
             /\ panic_msg = MsgBuild
             /\ server = "None"
             /\ Calls("server_start") = 0
             /\ Calls("server_stop") = 0
    /\ ProcState \in {"Running", "Stopping", "Stopped"}
          => (Oks("server_start") = 1 /\ Errs("server_start") = 0)

C10_Witness ==
    /\ Errs("server_start") = 1
    /\ Oks("Builder_build") = 1
    /\ pc = "panicked"

\* The six argument slots of the server Builder.
ServerSlots == {"server.config", "server.runtimes", "server.catalog_manager",
                "server.query_executor", "server.table_engine",
                "server.function_registry"}

\* C11: a Server exists only when all six dependencies (config, runtime pool
\* set, catalog manager, query executor, table engine proxy, function
\* registry) have been constructed with success and supplied to the builder;
\* start() never sees a Server with a dependency missing.
C11_ServerHasAllDeps ==
    (server # "None" \/ Calls("server_start") > 0 \/ created["Server"] > 0)
        => /\ \A a \in ServerSlots : handed[a] # 0
           /\ \A p \in PoolSet : runtimes[p].built
           /\ created["EngineRuntimes"] = 1
           /\ catalog_manager = "Catalog" /\ Oks("TableBasedManager_new") = 1
           /\ query_executor = "Executor"
           /\ engine_proxy = "Proxy"
           /\ function_registry = "Shared" /\ Oks("load_functions") = 1

C11_Witness ==
    /\ server = "Built"
    /\ pc = "server_start"
    /\ \A a \in ServerSlots : handed[a] = 1

\* C12: the function registry is wrapped in the shared handle, and handed to
\* the server builder, only after load_functions() has returned success: an
\* unloaded or partially loaded registry is never shared or handed on, and
\* once shared the registry is not changed and not loaded again.
C12_RegistrySharedAfterLoad ==
    /\ [](/\ function_registry = "Shared"
               => (Oks("load_functions") = 1 /\ Errs("load_functions") = 0)
          /\ Calls("Arc_new_registry") > 0 => Oks("load_functions") = 1
          /\ handed["server.function_registry"] # 0
               => (function_registry = "Shared" /\ Oks("load_functions") = 1)
          /\ function_registry \in {"New", "Partial"}
               => handed["server.function_registry"] = 0)
    /\ [][function_registry = "Shared"
            => /\ function_registry' = "Shared"
               /\ Calls("load_functions")' = Calls("load_functions")]_vars

C12_Witness ==
    /\ function_registry = "Shared"
    /\ handed["server.function_registry"] = 1
    /\ Oks("load_functions") = 1

\* Every fallible step in the order of execution.
FallibleOrder == <<"build_runtime_read", "build_runtime_write",
                   "build_runtime_meta", "build_runtime_bg", "engine_build",
                   "TableBasedManager_new", "load_functions", "Builder_build",
                   "server_start">>

\* The message that names the stage of a fallible step.
StageMsg(s) ==
    CASE s \in {"build_runtime_read", "build_runtime_write",
                "build_runtime_meta", "build_runtime_bg"} -> MsgRuntime
      [] s = "engine_build" -> MsgEngine
      [] s = "TableBasedManager_new" -> MsgCatalog
      [] s = "load_functions" -> MsgRegistry
      [] s = "Builder_build" -> MsgBuild
      [] s = "server_start" -> MsgStart

\* C13: an aborted run records the message of the stage of the one step that
\* failed, which is the first failure because no later step has run; the
\* messages of the six stages (pool creation, engine build, catalog build,
\* registry load, server build, server start) are pairwise different; a run
\* that has not aborted records no message.
C13_AbortNamesStage ==
    /\ Cardinality({MsgRuntime, MsgEngine, MsgCatalog, MsgRegistry, MsgBuild,
                    MsgStart}) = 6
    /\ pc = "panicked"
          => \E i \in 1..Len(FallibleOrder) :
                /\ Errs(FallibleOrder[i]) = 1
                /\ panic_msg = StageMsg(FallibleOrder[i])
                /\ \A j \in 1..Len(FallibleOrder) :
                      /\ j # i => Errs(FallibleOrder[j]) = 0
                      /\ j < i => Oks(FallibleOrder[j]) = 1
                      /\ j > i => Calls(FallibleOrder[j]) = 0
    /\ pc # "panicked"
          => (panic_msg = "" /\ \A s \in Steps : Errs(s) = 0)

C13_Witness ==
    /\ pc = "panicked"
    /\ panic_msg = MsgCatalog
    /\ Errs("TableBasedManager_new") = 1

\* C14: if every bootstrap step has succeeded and a termination signal is
\* delivered, the run eventually reaches Stopped (stop() called, run_server
\* returned); a step leaves Running only with a received signal, stop() is
\* called only with a received signal, and as long as no signal is delivered
\* a Running process stays Running.
C14_SignalStops ==
    /\ (Oks("server_start") = 1 /\ signal)
          ~> (pc = "returned" /\ Oks("server_stop") = 1)
    /\ [][ /\ (ProcState = "Running" /\ ProcState' # "Running") => signal
           /\ Calls("server_stop")' > Calls("server_stop") => signal ]_vars
    /\ [](ProcState = "Running"
            => ([](~signal) => [](ProcState = "Running")))

C14_Witness ==
    /\ pc = "returned"
    /\ signal
    /\ Oks("server_stop") = 1
    /\ Oks("block_on") = 1

\* The process-level states in which the bootstrap/serve task runs.
TaskStates == {"Building(engine)", "Building(catalog)", "Building(server)",
               "Running", "Stopping"}

\* C15: from Building(engine) through Stopping run_server holds its own
\* reference to the pool set, so its owner count is at least one and all four
\* pools exist; the pool set is without owner only before it is created and
\* after run_server has returned, never while the engine handle is in use.
C15_PoolSetOutlivesUse ==
    /\ ProcState \in TaskStates
          => /\ "run_server" \in owners
             /\ Cardinality(owners) >= 1
             /\ created["EngineRuntimes"] = 1
             /\ \A p \in PoolSet : runtimes[p].built
    /\ (analytic \in Variants /\ pc # "returned")
          => ("run_server" \in owners /\ \A p \in PoolSet : runtimes[p].built)
    /\ owners = {}
          => (created["EngineRuntimes"] = 0 \/ pc = "returned")

C15_Witness ==
    /\ pc = "server_stop"
    /\ owners = {"run_server", "task", "engine", "server"}

\* The RuntimeConfig field each pool of EngineRuntimes is sized from.
ThreadNumOf(p) ==
    CASE p = "read_runtime" -> config.read_thread_num
      [] p = "write_runtime" -> config.write_thread_num
      [] p = "meta_runtime" -> config.meta_thread_num
      [] p = "bg_runtime" -> config.background_thread_num

\* C16: the pool set has exactly four pools (read, write, meta, background),
\* each sized from its own configuration field with no cross-assignment, all
\* four present once the pool set exists; a built pool is never resized or
\* replaced by a later step.
C16_PoolsSizedFromConfig ==
    /\ [](/\ DOMAIN runtimes = PoolSet
          /\ Cardinality(PoolSet) = 4
          /\ \A p \in PoolSet :
                runtimes[p].built => runtimes[p].worker_threads = ThreadNumOf(p)
          /\ created["EngineRuntimes"] > 0 => \A p \in PoolSet : runtimes[p].built)
    /\ [][\A p \in PoolSet : runtimes[p].built => runtimes'[p] = runtimes[p]]_vars

C16_Witness ==
    /\ pc = "server_stop"
    /\ \A p \in PoolSet : runtimes[p].built
    /\ runtimes["read_runtime"].worker_threads = 1
    /\ runtimes["write_runtime"].worker_threads = 2
    /\ runtimes["meta_runtime"].worker_threads = 2
    /\ runtimes["bg_runtime"].worker_threads = 1

\* C17: routing is a function of the tag alone: an operation tagged memory
\* resolves to the MemoryTableEngine instance held by the proxy, one tagged
\* analytic to the storage engine handle held by the proxy, any other tag
\* yields the error "unsupported engine type"; the result is the same
\* whatever was routed before and never falls back to the other engine.
C17_RoutingByTag ==
    /\ [](routed # NoRoute
            => /\ routed.tag \in Tags
               /\ routed.tag = "memory"
                    => /\ routed.engine = "MemoryTableEngine"
                       /\ routed.instance = handed["proxy.memory"]
                       /\ routed.instance = created["MemoryTableEngine"]
               /\ routed.tag = "analytic"
                    => /\ routed.engine = "AnalyticEngine"
                       /\ routed.instance = handed["proxy.analytic"]
                       /\ routed.instance = created["AnalyticEngine"]
               /\ routed.tag \notin {"memory", "analytic"}
                    => /\ routed.engine = "UnsupportedEngineType"
                       /\ routed.instance = 0)
    /\ [][(routed # NoRoute /\ routed'.tag = routed.tag) => routed' = routed]_vars

C17_Witness ==
    /\ routed.tag = "other"
    /\ routed.engine = "UnsupportedEngineType"
    /\ server = "Started"

\* C18: each shared component is built once and the same instance goes to
\* every consumer: the engine wrapped by the proxy is the one given to the
\* catalog manager, the proxy given to the catalog manager is the one given to
\* the server, the pool set given to the engine builder is the one given to
\* the server; no second engine, proxy or pool set is created in a run.
C18_SameInstanceShared ==
    /\ \A k \in Kinds : created[k] <= 1
    /\ Calls("engine_build") > 0
          => handed["build.runtimes"] = 1
    /\ Calls("TableEngineProxy") > 0
          => (handed["proxy.analytic"] = 1 /\ handed["proxy.memory"] = 1)
    /\ Calls("TableBasedManager_new") > 0
          => /\ handed["catalog.analytic"] = handed["proxy.analytic"]
             /\ handed["catalog.engine_proxy"] = 1
    /\ Calls("Builder_build") > 0
          => /\ handed["server.table_engine"] = handed["catalog.engine_proxy"]
             /\ handed["server.runtimes"] = handed["build.runtimes"]
             /\ handed["server.runtimes"] = 1

C18_Witness ==
    /\ pc = "server_start"
    /\ \A a \in Slots : handed[a] = 1
    /\ \A k \in Kinds : created[k] = 1

====
